---- MODULE Spec2Model ----
(***************************************************************************)
(* PregnancyCalculatorService of the pregnancy-calendar application:       *)
(* date arithmetic, gestational age, trimester classification, the 280-day *)
(* calendar, the summary and the month filters.                            *)
(*                                                                         *)
(* A JavaScript Date is modelled by its time value in local time, counted  *)
(* in ticks: one day is TicksPerDay ticks (the code's 1000*60*60*24 ms),   *)
(* the local zone has a fixed offset (no daylight-saving shifts).  The     *)
(* Date built-ins follow ECMAScript's Day / YearFromTime / MonthFromTime / *)
(* DateFromTime / MakeDay definitions.                                     *)
(*                                                                         *)
(* The calculator keeps no state: a behaviour is a reference date and one  *)
(* call.  Spec makes the calendar calls from every reference date of the   *)
(* modelled years; SpecAge makes the age, trimester, summary, calendar and *)
(* month-filtering calls from the reference dates at the edges and the     *)
(* middle of a month, at every instant of the clock around the 280 days.   *)
(*                                                                         *)
(* StorageService keeps the user preferences in the browser's localStorage *)
(* and in a BehaviorSubject.  SpecStorage starts from a constructed        *)
(* service and makes any sequence of its calls; every localStorage         *)
(* operation of a call may throw.  A JSON text is the sequence of its      *)
(* tokens.                                                                 *)
(***************************************************************************)
EXTENDS Integers, Sequences, FiniteSets, TLC

VARIABLES lmpDate,   \* the reference date object handed to the service
          call,      \* the service call made: operation, reference date, argument
          result,    \* the value the call returned
          localStorage,        \* the browser's localStorage: key -> text
          preferencesSubject,  \* the value of StorageService.preferencesSubject
          received   \* the latest value a subscriber of getPreferences() received

vars == <<lmpDate, call, result, localStorage, preferencesSubject, received>>
storageVars == <<localStorage, preferencesSubject, received>>

(***************************************************************************)
(* Bounds of the model.                                                    *)
(***************************************************************************)
TicksPerDay == 2        \* time-of-day resolution: ticks in one day
FirstYear == 2024       \* reference dates lie in the YearCount years from FirstYear
YearCount == 1
MaxEarlyDays == 2       \* the clock may be up to this many days before the reference date
MaxLateDays == 12       \* ... and up to this many days after the due date
MaxWeeks == 45          \* largest completed-week count passed to getTrimester

LastYear == FirstYear + YearCount - 1

(***************************************************************************)
(* Program constants.                                                      *)
(***************************************************************************)
PREGNANCY_DURATION_DAYS == 280
PREGNANCY_DURATION_WEEKS == 40
DAYS_PER_WEEK == 7
MS_PER_DAY == TicksPerDay

MONTH_NAMES ==
  << "January", "February", "March", "April", "May", "June", "July",
     "August", "September", "October", "November", "December" >>

(***************************************************************************)
(* JavaScript values.                                                      *)
(***************************************************************************)
\* An optional value: undefined is the empty tuple, a defined value v is <<v>>.
Undefined == << >>
Some(v) == << v >>

\* Math.round of the rational a / b (b > 0): nearest integer, halves go up.
MathRound(a, b) == (2 * a + b) \div (2 * b)

\* Math.floor of the rational a / b (b > 0).
MathFloor(a, b) == a \div b

\* The % operator of JavaScript: the result has the sign of the dividend.
JsRem(a, b) == IF a >= 0 THEN a % b ELSE -((-a) % b)

Max(a, b) == IF a >= b THEN a ELSE b
Min(a, b) == IF a <= b THEN a ELSE b

(***************************************************************************)
(* Date built-ins (ECMAScript 21.4.1).                                     *)
(***************************************************************************)
Day(t) == t \div TicksPerDay
TimeWithinDay(t) == t % TicksPerDay

IsLeap(y) == (y % 4 = 0) /\ ((y % 100 # 0) \/ (y % 400 = 0))

DayFromYear(y) ==
  365 * (y - 1970) + ((y - 1969) \div 4) - ((y - 1901) \div 100)
                   + ((y - 1601) \div 400)

YearFromDay(d) ==
  CHOOSE y \in (1970 + d \div 366) .. (1970 + d \div 365) :
     DayFromYear(y) <= d /\ d < DayFromYear(y + 1)

\* Number of days of the year before month m (0-based), m in 0..12.
DaysBeforeMonth == <<0, 31, 59, 90, 120, 151, 181, 212, 243, 273, 304, 334, 365>>
MonthStart(m, leap) == DaysBeforeMonth[m + 1] + (IF leap /\ m >= 2 THEN 1 ELSE 0)

DayWithinYear(d) == d - DayFromYear(YearFromDay(d))

MonthFromDay(d) ==
  LET leap == IsLeap(YearFromDay(d))
      dwy == DayWithinYear(d)
  IN  CHOOSE m \in 0..11 : MonthStart(m, leap) <= dwy /\ dwy < MonthStart(m + 1, leap)

DateFromDay(d) ==
  DayWithinYear(d) - MonthStart(MonthFromDay(d), IsLeap(YearFromDay(d))) + 1

\* MakeDay(year, month, date): month may lie outside 0..11, date outside the month.
MakeDay(year, month, date) ==
  LET ym == year + (month \div 12)
      mn == month % 12
  IN  DayFromYear(ym) + MonthStart(mn, IsLeap(ym)) + date - 1

\* The days the model can touch, and their local year, month (0-based) and
\* day of the month, tabulated once.
ModelDays ==
  (DayFromYear(FirstYear) - MaxEarlyDays - 31)
     .. (DayFromYear(LastYear + 1) + PREGNANCY_DURATION_DAYS + MaxLateDays + 31)
LocalDate ==
  [ d \in ModelDays |->
      [year |-> YearFromDay(d), month |-> MonthFromDay(d), date |-> DateFromDay(d)] ]

getFullYear(t) == LocalDate[Day(t)].year
getMonth(t) == LocalDate[Day(t)].month
getDate(t) == LocalDate[Day(t)].date
getTime(t) == t

\* new Date(year, monthIndex, day): local midnight; years 0..99 mean 1900..1999.
NewDateYMD(year, month, date) ==
  MakeDay(IF year \in 0..99 THEN 1900 + year ELSE year, month, date) * TicksPerDay

\* d.setDate(n): same year, month and time of day, day-of-month n (may overflow).
SetDate(t, n) ==
  MakeDay(getFullYear(t), getMonth(t), n) * TicksPerDay + TimeWithinDay(t)

\* Number.prototype.toString and String.prototype.padStart(2, '0').
PadStart2(s) == IF Len(s) < 2 THEN "0" \o s ELSE s

(***************************************************************************)
(* PregnancyCalculatorService: date and age calculator.                    *)
(***************************************************************************)
\* calculateDueDate: the returned Date, and the argument object afterwards.
calculateDueDate(lmp) ==
  LET dueDate == lmp
  IN  SetDate(dueDate, getDate(dueDate) + PREGNANCY_DURATION_DAYS)

\* Mutant: the due date is computed on the argument itself, not on a copy.
calculateDueDateArgAfter_Aliased(lmp) == calculateDueDate(lmp)

calculateDueDateArgAfter(lmp) == lmp

\* Mutant: the two dates are subtracted without truncating them to midnight.
calculateGestationalAge_NoMidnight(lmp, currentDate) ==
  LET timeDifference == getTime(currentDate) - getTime(lmp)
      totalDays == MathRound(timeDifference, MS_PER_DAY)
      weeks == MathFloor(totalDays, DAYS_PER_WEEK)
      days == JsRem(totalDays, DAYS_PER_WEEK)
  IN  [ weeks |-> weeks, days |-> days, totalDays |-> totalDays,
        formatted |-> ToString(weeks) \o " weeks " \o ToString(days + 1) \o " days" ]

\* Mutant: the weeks are rounded to the nearest week instead of rounded down.
calculateGestationalAge_RoundWeeks(lmp, currentDate) ==
  LET l == NewDateYMD(getFullYear(lmp), getMonth(lmp), getDate(lmp))
      c == NewDateYMD(getFullYear(currentDate), getMonth(currentDate),
                      getDate(currentDate))
      timeDifference == getTime(c) - getTime(l)
      totalDays == MathRound(timeDifference, MS_PER_DAY)
      weeks == MathRound(totalDays, DAYS_PER_WEEK)
      days == JsRem(totalDays, DAYS_PER_WEEK)
  IN  [ weeks |-> weeks, days |-> days, totalDays |-> totalDays,
        formatted |-> ToString(weeks) \o " weeks " \o ToString(days + 1) \o " days" ]

\* Mutant: only the reference date is truncated to midnight.
calculateGestationalAge_TruncatesReferenceOnly(lmp, currentDate) ==
  LET l == NewDateYMD(getFullYear(lmp), getMonth(lmp), getDate(lmp))
      c == currentDate
      timeDifference == getTime(c) - getTime(l)
      totalDays == MathRound(timeDifference, MS_PER_DAY)
      weeks == MathFloor(totalDays, DAYS_PER_WEEK)
      days == JsRem(totalDays, DAYS_PER_WEEK)
  IN  [ weeks |-> weeks, days |-> days, totalDays |-> totalDays,
        formatted |-> ToString(weeks) \o " weeks " \o ToString(days + 1) \o " days" ]

calculateGestationalAge(lmp, currentDate) ==
  LET l == NewDateYMD(getFullYear(lmp), getMonth(lmp), getDate(lmp))
      c == NewDateYMD(getFullYear(currentDate), getMonth(currentDate),
                      getDate(currentDate))
      timeDifference == getTime(c) - getTime(l)
      totalDays == MathRound(timeDifference, MS_PER_DAY)
      weeks == MathFloor(totalDays, DAYS_PER_WEEK)
      days == JsRem(totalDays, DAYS_PER_WEEK)
  IN  [ weeks |-> weeks, days |-> days, totalDays |-> totalDays,
        formatted |-> ToString(weeks) \o " weeks " \o ToString(days + 1) \o " days" ]

\* Mutant: the boundaries are inclusive (<= 13, <= 27).
getTrimester_InclusiveBounds(gestationalWeeks) ==
  IF gestationalWeeks <= 13 THEN "first"
  ELSE IF gestationalWeeks <= 27 THEN "second"
  ELSE "third"

getTrimester(gestationalWeeks) ==
  IF gestationalWeeks < 13 THEN "first"
  ELSE IF gestationalWeeks < 27 THEN "second"
  ELSE "third"

formatDate(date) ==
  LET month == PadStart2(ToString(getMonth(date) + 1))
      day == PadStart2(ToString(getDate(date)))
      year == ToString(getFullYear(date))
  IN  month \o "/" \o day \o "/" \o year

(***************************************************************************)
(* Reference tables.  Weights are grams; lengths are tenths of a           *)
(* centimetre, so that 0.1 cm is 1 and 52.0 cm is 520.                     *)
(***************************************************************************)
getFetalDevelopmentData ==
  << [ week |-> 4, description |-> "Embryo implants in uterine wall",
       weightRange |-> [min |-> 0, max |-> 0],
       lengthRange |-> [min |-> 1, max |-> 2] ],
     [ week |-> 8, description |-> "All major organs have begun to form",
       weightRange |-> [min |-> 1, max |-> 2],
       lengthRange |-> [min |-> 16, max |-> 20] ],
     [ week |-> 12, description |-> "Fetus can make movements",
       weightRange |-> [min |-> 14, max |-> 20],
       lengthRange |-> [min |-> 54, max |-> 65] ],
     [ week |-> 16, description |-> "Baby can hear sounds from outside",
       weightRange |-> [min |-> 100, max |-> 140],
       lengthRange |-> [min |-> 109, max |-> 120] ],
     [ week |-> 20, description |-> "Halfway point - anatomy scan time",
       weightRange |-> [min |-> 260, max |-> 350],
       lengthRange |-> [min |-> 164, max |-> 180] ],
     [ week |-> 24, description |-> "Viability milestone reached",
       weightRange |-> [min |-> 600, max |-> 750],
       lengthRange |-> [min |-> 210, max |-> 230] ],
     [ week |-> 28, description |-> "Third trimester begins",
       weightRange |-> [min |-> 1000, max |-> 1200],
       lengthRange |-> [min |-> 250, max |-> 270] ],
     [ week |-> 32, description |-> "Rapid brain development continues",
       weightRange |-> [min |-> 1700, max |-> 1900],
       lengthRange |-> [min |-> 280, max |-> 300] ],
     [ week |-> 36, description |-> "Baby is getting ready for birth",
       weightRange |-> [min |-> 2600, max |-> 2900],
       lengthRange |-> [min |-> 320, max |-> 340] ],
     [ week |-> 40, description |-> "Full term - ready for birth",
       weightRange |-> [min |-> 3200, max |-> 3600],
       lengthRange |-> [min |-> 480, max |-> 520] ] >>

getAppointmentScheduleData ==
  << [ week |-> 8, appointmentType |-> "First Prenatal Visit",
       description |-> "Confirm pregnancy, medical history, initial tests",
       priority |-> "critical" ],
     [ week |-> 12, appointmentType |-> "First Trimester Screening",
       description |-> "NT scan and blood work for genetic screening",
       priority |-> "important" ],
     [ week |-> 16, appointmentType |-> "Routine Checkup",
       description |-> "Blood pressure, weight, fundal height measurement",
       priority |-> "routine" ],
     [ week |-> 20, appointmentType |-> "Anatomy Scan",
       description |-> "Detailed ultrasound to check baby's development",
       priority |-> "critical" ],
     [ week |-> 24, appointmentType |-> "Glucose Screening",
       description |-> "Test for gestational diabetes",
       priority |-> "important" ],
     [ week |-> 28, appointmentType |-> "Third Trimester Begin",
       description |-> "Routine checkup, discuss birth plan",
       priority |-> "important" ],
     [ week |-> 32, appointmentType |-> "Routine Checkup",
       description |-> "Monitor baby's growth and position",
       priority |-> "routine" ],
     [ week |-> 36, appointmentType |-> "Group B Strep Test",
       description |-> "Screen for Group B Streptococcus bacteria",
       priority |-> "important" ],
     [ week |-> 38, appointmentType |-> "Pre-delivery Checkup",
       description |-> "Check cervix, discuss delivery options",
       priority |-> "important" ],
     [ week |-> 40, appointmentType |-> "Due Date Assessment",
       description |-> "Evaluate if induction is needed",
       priority |-> "critical" ] >>

(***************************************************************************)
(* Array built-ins.                                                        *)
(***************************************************************************)
\* arr.find(data => data.week === week): the first such element, or undefined.
FindWeek(arr, week) ==
  LET hits == { i \in 1..Len(arr) : arr[i].week = week }
  IN  IF hits = {} THEN Undefined
      ELSE Some(arr[CHOOSE i \in hits : \A j \in hits : i <= j])

\* Array.prototype.slice(0, n).
Slice0(arr, n) == SubSeq(arr, 1, Min(n, Len(arr)))

(***************************************************************************)
(* Per-week lookups.                                                       *)
(***************************************************************************)
\* Mutant: the milestone is returned on every day of the week.
getDevelopmentMilestone_EveryDay(gestationalWeek, dayOfWeek) ==
  LET weekData == FindWeek(getFetalDevelopmentData, gestationalWeek)
  IN  IF weekData # Undefined
        THEN Some(weekData[1].description)
        ELSE Undefined

getDevelopmentMilestone(gestationalWeek, dayOfWeek) ==
  LET weekData == FindWeek(getFetalDevelopmentData, gestationalWeek)
  IN  IF dayOfWeek = 1 /\ weekData # Undefined
        THEN Some(weekData[1].description)
        ELSE Undefined

\* Mutant: the midpoint is rounded down.
getEstimatedFetalWeight_Floor(gestationalWeek) ==
  LET weekData == FindWeek(getFetalDevelopmentData, gestationalWeek)
  IN  IF weekData # Undefined
        THEN Some(MathFloor(weekData[1].weightRange.min + weekData[1].weightRange.max, 2))
        ELSE Undefined

getEstimatedFetalWeight(gestationalWeek) ==
  LET weekData == FindWeek(getFetalDevelopmentData, gestationalWeek)
  IN  IF weekData # Undefined
        THEN Some(MathRound(weekData[1].weightRange.min + weekData[1].weightRange.max, 2))
        ELSE Undefined

\* Lengths are tenths of a centimetre: (min + max) / 2 centimetres is
\* (min + max) / 20 in the table's unit; the result is whole centimetres.
getEstimatedFetalLength(gestationalWeek) ==
  LET weekData == FindWeek(getFetalDevelopmentData, gestationalWeek)
  IN  IF weekData # Undefined
        THEN Some(MathRound(weekData[1].lengthRange.min + weekData[1].lengthRange.max, 20))
        ELSE Undefined

\* Mutant: the appointments of the following week are returned.
getAppointmentsForWeek_FollowingWeek(gestationalWeek) ==
  LET IsWeek(appt) == appt.week = gestationalWeek + 1
      hits == SelectSeq(getAppointmentScheduleData, IsWeek)
  IN  [ i \in 1..Len(hits) |->
          hits[i].appointmentType \o ": " \o hits[i].description ]

getAppointmentsForWeek(gestationalWeek) ==
  LET IsWeek(appt) == appt.week = gestationalWeek
      hits == SelectSeq(getAppointmentScheduleData, IsWeek)
  IN  [ i \in 1..Len(hits) |->
          hits[i].appointmentType \o ": " \o hits[i].description ]

\* Mutant: the third-trimester note is attached to week 28.
getNotesForWeek_Week28(gestationalWeek) ==
  LET n1 == IF gestationalWeek = 13 THEN << "Welcome to the second trimester!" >>
            ELSE IF gestationalWeek = 28 THEN << "Welcome to the third trimester!" >>
            ELSE << >>
      n2 == IF gestationalWeek = 24
              THEN << "Viability milestone reached - baby has survival chances if born now" >>
              ELSE << >>
      n3 == IF gestationalWeek = 37 THEN << "Baby is now considered full-term" >>
            ELSE << >>
  IN  n1 \o n2 \o n3

getNotesForWeek(gestationalWeek) ==
  LET n1 == IF gestationalWeek = 13 THEN << "Welcome to the second trimester!" >>
            ELSE IF gestationalWeek = 27 THEN << "Welcome to the third trimester!" >>
            ELSE << >>
      n2 == IF gestationalWeek = 24
              THEN << "Viability milestone reached - baby has survival chances if born now" >>
              ELSE << >>
      n3 == IF gestationalWeek = 37 THEN << "Baby is now considered full-term" >>
            ELSE << >>
  IN  n1 \o n2 \o n3

\* Mutant: the milestone of the current week is kept (week >= currentWeek).
getUpcomingMilestones_Inclusive(currentWeek) ==
  LET milestones ==
        << [week |-> 12, description |-> "End of first trimester"],
           [week |-> 20, description |-> "Anatomy scan"],
           [week |-> 24, description |-> "Viability milestone"],
           [week |-> 28, description |-> "Third trimester begins"],
           [week |-> 32, description |-> "Rapid brain development"],
           [week |-> 36, description |-> "Baby considered full-term soon"],
           [week |-> 40, description |-> "Due date"] >>
      Later(milestone) == milestone.week >= currentWeek
      next == Slice0(SelectSeq(milestones, Later), 3)
  IN  [ i \in 1..Len(next) |->
          "Week " \o ToString(next[i].week) \o ": " \o next[i].description ]

getUpcomingMilestones(currentWeek) ==
  LET milestones ==
        << [week |-> 12, description |-> "End of first trimester"],
           [week |-> 20, description |-> "Anatomy scan"],
           [week |-> 24, description |-> "Viability milestone"],
           [week |-> 28, description |-> "Third trimester begins"],
           [week |-> 32, description |-> "Rapid brain development"],
           [week |-> 36, description |-> "Baby considered full-term soon"],
           [week |-> 40, description |-> "Due date"] >>
      Later(milestone) == milestone.week > currentWeek
      next == Slice0(SelectSeq(milestones, Later), 3)
  IN  [ i \in 1..Len(next) |->
          "Week " \o ToString(next[i].week) \o ": " \o next[i].description ]

\* Mutant: three appointments are kept (slice(0, 3)).
getNextAppointments_TakesThree(currentWeek) ==
  LET Later(appt) == appt.week > currentWeek
      next == Slice0(SelectSeq(getAppointmentScheduleData, Later), 3)
  IN  [ i \in 1..Len(next) |->
          "Week " \o ToString(next[i].week) \o ": " \o next[i].appointmentType ]

getNextAppointments(currentWeek) ==
  LET Later(appt) == appt.week > currentWeek
      next == Slice0(SelectSeq(getAppointmentScheduleData, Later), 2)
  IN  [ i \in 1..Len(next) |->
          "Week " \o ToString(next[i].week) \o ": " \o next[i].appointmentType ]

(***************************************************************************)
(* Calendar generator.                                                     *)
(***************************************************************************)
\* The PregnancyDay object literal of the loop body, from the loop's constants.
PregnancyDayOf(dayNumber, currentDate, gestationalAge, gestationalWeek, dayOfWeek, trimester) ==
  [ dayNumber |-> dayNumber,
    date |-> currentDate,
    formattedDate |-> formatDate(currentDate),
    gestationalWeek |-> gestationalWeek,
    dayOfWeek |-> dayOfWeek,
    gestationalAge |-> gestationalAge.formatted,
    calendarMonth |-> getMonth(currentDate) + 1,
    calendarYear |-> getFullYear(currentDate),
    monthName |-> MONTH_NAMES[getMonth(currentDate) + 1],
    trimester |-> trimester,
    developmentMilestone |-> getDevelopmentMilestone(gestationalWeek, dayOfWeek),
    estimatedFetalWeight |-> getEstimatedFetalWeight(gestationalWeek),
    estimatedFetalLength |-> getEstimatedFetalLength(gestationalWeek),
    appointments |-> getAppointmentsForWeek(gestationalWeek),
    notes |-> getNotesForWeek(gestationalWeek) ]

\* The loop body once gestationalAge is known: week and day numbering start at 1.
PregnancyDayAt(dayNumber, currentDate, gestationalAge) ==
  PregnancyDayOf(dayNumber, currentDate, gestationalAge,
                 gestationalAge.weeks + 1, gestationalAge.days + 1,
                 getTrimester(gestationalAge.weeks))

\* The loop body once currentDate is known.
PregnancyDayOn(lmp, dayNumber, currentDate) ==
  PregnancyDayAt(dayNumber, currentDate, calculateGestationalAge(lmp, currentDate))

\* The loop body of generatePregnancyCalendar for one dayNumber.
PregnancyDay(lmp, dayNumber) ==
  LET baseDate == lmp
  IN  PregnancyDayOn(lmp, dayNumber,
                     SetDate(baseDate, getDate(baseDate) + dayNumber - 1))

\* for (dayNumber = from; dayNumber <= to; dayNumber++) pregnancyDays.push(...)
\* The iterations run in ascending order.  The range is halved, and the array
\* after the first half is compared with the empty array (never equal), only
\* to keep the evaluation shallow and strict.
RECURSIVE CalendarLoop(_, _, _, _)
CalendarLoop(lmp, from, to, pregnancyDays) ==
  IF from > to THEN pregnancyDays
  ELSE IF from = to THEN Append(pregnancyDays, PregnancyDay(lmp, from))
  ELSE LET mid == (from + to) \div 2
           firstHalf == CalendarLoop(lmp, from, mid, pregnancyDays)
       IN  IF firstHalf = << >> THEN firstHalf
           ELSE CalendarLoop(lmp, mid + 1, to, firstHalf)

\* Mutant: the loop stops one day early (dayNumber < 280).
generatePregnancyCalendar_StopsEarly(lmp) ==
  CalendarLoop(lmp, 1, PREGNANCY_DURATION_DAYS - 1, << >>)

generatePregnancyCalendar(lmp) ==
  CalendarLoop(lmp, 1, PREGNANCY_DURATION_DAYS, << >>)

(***************************************************************************)
(* Summary generator.  currentDate is the instant new Date() returned.     *)
(***************************************************************************)
\* Mutant: the remaining days are not clamped at zero.
daysRemaining_NoClamp(dueDate, currentDate) ==
  MathFloor(getTime(dueDate) - getTime(currentDate), MS_PER_DAY)

\* Math.max(0, Math.floor((dueDate.getTime() - currentDate.getTime()) / msPerDay))
daysRemaining(dueDate, currentDate) ==
  Max(0, MathFloor(getTime(dueDate) - getTime(currentDate), MS_PER_DAY))

\* Mutant: the percentage is not clamped at 100.
progressPercentage_NoClamp(totalDays) ==
  MathRound(totalDays * 100, PREGNANCY_DURATION_DAYS)

\* Math.min(100, Math.round((totalDays / PREGNANCY_DURATION_DAYS) * 100))
progressPercentage(totalDays) ==
  Min(100, MathRound(totalDays * 100, PREGNANCY_DURATION_DAYS))

generatePregnancySummary(lmp, currentDate) ==
  LET gestationalAge == calculateGestationalAge(lmp, currentDate)
      dueDate == calculateDueDate(lmp)
      trimester == getTrimester(gestationalAge.weeks)
  IN  [ currentGestationalAge |-> gestationalAge.formatted,
        currentTrimester |-> trimester,
        daysCompleted |-> gestationalAge.totalDays,
        daysRemaining |-> daysRemaining(dueDate, currentDate),
        progressPercentage |-> progressPercentage(gestationalAge.totalDays),
        estimatedDueDate |-> dueDate,
        formattedDueDate |-> formatDate(dueDate),
        upcomingMilestones |-> getUpcomingMilestones(gestationalAge.weeks),
        nextAppointments |-> getNextAppointments(gestationalAge.weeks) ]

(***************************************************************************)
(* Strings handled character by character: the month-group key is built   *)
(* with toString / padStart and taken apart with split / parseInt.         *)
(***************************************************************************)
DigitChars == << "0", "1", "2", "3", "4", "5", "6", "7", "8", "9" >>
IsDigit(c) == \E v \in 0..9 : DigitChars[v + 1] = c
DigitValue(c) == CHOOSE v \in 0..9 : DigitChars[v + 1] = c

RECURSIVE DigitsOf(_)
DigitsOf(n) ==
  IF n < 10 THEN << DigitChars[n + 1] >>
  ELSE Append(DigitsOf(n \div 10), DigitChars[(n % 10) + 1])

\* Number.prototype.toString(), as a sequence of characters.
NumberToChars(n) == IF n < 0 THEN << "-" >> \o DigitsOf(-n) ELSE DigitsOf(n)

\* String.prototype.padStart(len, ch).
PadStart(cs, len, ch) ==
  IF Len(cs) >= len THEN cs ELSE [ i \in 1..(len - Len(cs)) |-> ch ] \o cs

\* String.prototype.split(sep) for a one-character separator.
RECURSIVE Split(_, _)
Split(cs, sep) ==
  LET at == { i \in 1..Len(cs) : cs[i] = sep }
  IN  IF at = {} THEN << cs >>
      ELSE LET i == CHOOSE k \in at : \A j \in at : k <= j
           IN  << SubSeq(cs, 1, i - 1) >> \o Split(SubSeq(cs, i + 1, Len(cs)), sep)

\* parseInt(cs, 10): the leading decimal digits; NaN when there are none.
NaN == "NaN"
RECURSIVE ParseDigits(_, _, _)
ParseDigits(cs, i, acc) ==
  IF i <= Len(cs) /\ IsDigit(cs[i])
    THEN ParseDigits(cs, i + 1, 10 * acc + DigitValue(cs[i]))
    ELSE acc
ParseInt(cs) ==
  IF Len(cs) >= 1 /\ IsDigit(cs[1]) THEN ParseDigits(cs, 1, 0)
  ELSE IF Len(cs) >= 2 /\ cs[1] = "-" /\ IsDigit(cs[2])
         THEN -ParseDigits(cs, 2, 0)
  ELSE NaN

\* The string made of the characters cs.
RECURSIVE CharsToString(_)
CharsToString(cs) ==
  IF cs = << >> THEN "" ELSE Head(cs) \o CharsToString(Tail(cs))

(***************************************************************************)
(* Month filters.                                                          *)
(***************************************************************************)
\* `${day.calendarYear}-${day.calendarMonth.toString().padStart(2, '0')}`
MonthKey(day) ==
  NumberToChars(day.calendarYear) \o << "-" >>
     \o PadStart(NumberToChars(day.calendarMonth), 2, "0")

\* The body of pregnancyDays.forEach for one day.  The Map is the sequence
\* of its entries in insertion order.
AddToGroup(monthGroups, day) ==
  LET key == MonthKey(day)
      at == { k \in 1..Len(monthGroups) : monthGroups[k].key = key }
      withKey == IF at = {}
                   THEN Append(monthGroups, [key |-> key, days |-> << >>])
                   ELSE monthGroups
      slot == CHOOSE n \in 1..Len(withKey) : withKey[n].key = key
  IN  [withKey EXCEPT ![slot].days = Append(@, day)]

\* pregnancyDays.forEach(day => ...) over the positions from..to, in ascending
\* order (halved and compared as in CalendarLoop).
RECURSIVE GroupByMonth(_, _, _, _)
GroupByMonth(pregnancyDays, from, to, monthGroups) ==
  IF from > to THEN monthGroups
  ELSE IF from = to THEN AddToGroup(monthGroups, pregnancyDays[from])
  ELSE LET mid == (from + to) \div 2
           firstHalf == GroupByMonth(pregnancyDays, from, mid, monthGroups)
       IN  IF firstHalf = << >> THEN firstHalf
           ELSE GroupByMonth(pregnancyDays, mid + 1, to, firstHalf)

\* monthGroups.forEach((days, key) => filters.push({...}))
MonthFilterOf(group) ==
  LET parts == Split(group.key, "-")
      year == parts[1]
      monthStr == parts[2]
      month == ParseInt(monthStr)
      days == group.days
      firstDay == days[1]
      lastDay == days[Len(days)]
  IN  [ month |-> month,
        year |-> ParseInt(year),
        monthName |-> MONTH_NAMES[month],
        startDate |-> firstDay.date,
        endDate |-> lastDay.date,
        pregnancyDaysCount |-> Len(days),
        displayLabel |-> MONTH_NAMES[month] \o " " \o CharsToString(year)
                           \o " (" \o ToString(Len(days)) \o " days)" ]

\* Mutant: the comparator is reversed (b - a).
CompareFilters_Descending(a, b) == getTime(b.startDate) - getTime(a.startDate)

\* The comparator of the sort: a.startDate.getTime() - b.startDate.getTime().
CompareFilters(a, b) == getTime(a.startDate) - getTime(b.startDate)

\* Array.prototype.sort with CompareFilters: a stable sort.
RECURSIVE SortFilters(_)
SortFilters(filters) ==
  IF Len(filters) <= 1 THEN filters
  ELSE LET sorted == SortFilters(SubSeq(filters, 1, Len(filters) - 1))
           x == filters[Len(filters)]
           before == { i \in 1..Len(sorted) : CompareFilters(sorted[i], x) <= 0 }
           k == IF before = {} THEN 0
                ELSE CHOOSE i \in before : \A j \in before : j <= i
       IN  SubSeq(sorted, 1, k) \o << x >> \o SubSeq(sorted, k + 1, Len(sorted))

\* The Map of the month groups of pregnancyDays.
MonthGroupsOf(pregnancyDays) ==
  GroupByMonth(pregnancyDays, 1, Len(pregnancyDays), << >>)

\* The filters pushed for the month groups, in the Map's order.
FiltersOf(monthGroups) ==
  [ g \in 1..Len(monthGroups) |-> MonthFilterOf(monthGroups[g]) ]

generateMonthFilters(lmp) ==
  SortFilters(FiltersOf(MonthGroupsOf(generatePregnancyCalendar(lmp))))

\* Mutant: only the year is compared.
filterByMonth_YearOnly(pregnancyDays, monthFilter) ==
  LET InMonth(day) == day.calendarYear = monthFilter.year
  IN  SelectSeq(pregnancyDays, InMonth)

filterByMonth(pregnancyDays, monthFilter) ==
  LET InMonth(day) == day.calendarMonth = monthFilter.month
                        /\ day.calendarYear = monthFilter.year
  IN  SelectSeq(pregnancyDays, InMonth)

(***************************************************************************)
(* JavaScript values of the storage service.  A value carries its type:    *)
(* a string, a number, null or an object; an object is the sequence of its *)
(* own properties <<key, value>> in insertion order.  The absent value     *)
(* (undefined) is Undefined.                                               *)
(***************************************************************************)
Null == << "null" >>
JsString(s) == << "string", s >>
JsNumber(n) == << "number", n >>
JsObject(props) == << "object", props >>

\* The typeof operator.
typeof(v) ==
  IF v = Undefined THEN "undefined"
  ELSE IF v[1] = "null" THEN "object"
  ELSE v[1]

\* ToBoolean: the truthiness the ! operator, if and && test.
Truthy(v) ==
  IF v = Undefined THEN FALSE
  ELSE IF v[1] = "null" THEN FALSE
  ELSE IF v[1] = "string" THEN v[2] # ""
  ELSE IF v[1] = "number" THEN v[2] # 0
  ELSE TRUE

\* Object.keys(obj), as a set.
Keys(obj) == { obj[2][i][1] : i \in 1..Len(obj[2]) }

\* obj[key]: the property's value, undefined when obj has no such property.
GetProp(obj, key) ==
  IF key \in Keys(obj)
    THEN obj[2][CHOOSE i \in 1..Len(obj[2]) : obj[2][i][1] = key][2]
    ELSE Undefined

\* props with the property key set to v: in place if present, else appended.
SetProp(props, key, v) ==
  IF \E i \in 1..Len(props) : props[i][1] = key
    THEN [ i \in 1..Len(props) |-> IF props[i][1] = key THEN << key, v >> ELSE props[i] ]
    ELSE Append(props, << key, v >>)

\* Copying the own properties `more` onto props, in order.
RECURSIVE AssignProps(_, _)
AssignProps(props, more) ==
  IF more = << >> THEN props
  ELSE AssignProps(SetProp(props, Head(more)[1], Head(more)[2]), Tail(more))

\* The object literal { ...a, ...b }.
Spread(a, b) == JsObject(AssignProps(AssignProps(<< >>, a[2]), b[2]))

(***************************************************************************)
(* JSON.  A text is the sequence of its tokens: the punctuation tokens and *)
(* the scalar values; any other token (a bare word) belongs to no JSON     *)
(* text.  The texts of the model hold scalars and objects.                 *)
(***************************************************************************)
LBrace == << "{" >>
RBrace == << "}" >>
Colon == << ":" >>
Comma == << "," >>
Word(w) == << "word", w >>

\* JSON.stringify(v); properties whose value is undefined are left out.
RECURSIVE JSONStringify(_)
RECURSIVE StringifyProps(_, _)
StringifyProps(props, first) ==
  IF props = << >> THEN << >>
  ELSE IF Head(props)[2] = Undefined THEN StringifyProps(Tail(props), first)
  ELSE (IF first THEN << >> ELSE << Comma >>)
          \o << JsString(Head(props)[1]), Colon >>
          \o JSONStringify(Head(props)[2])
          \o StringifyProps(Tail(props), FALSE)

JSONStringify(v) ==
  IF v[1] = "object" THEN << LBrace >> \o StringifyProps(v[2], TRUE) \o << RBrace >>
  ELSE << v >>

\* JSON.parse(text): [ok |-> TRUE, value |-> v], or ok = FALSE for the
\* SyntaxError it throws.  The parsers return the position after what they read.
ParseFail == [ok |-> FALSE]
RECURSIVE ParseValue(_, _)
RECURSIVE ParseMembers(_, _, _)

\* After a member: a comma and more members, or the closing brace.
ParseAfterMember(text, i, props) ==
  IF i > Len(text) THEN ParseFail
  ELSE IF text[i] = Comma THEN ParseMembers(text, i + 1, props)
  ELSE IF text[i] = RBrace
         THEN [ok |-> TRUE, value |-> JsObject(props), next |-> i + 1]
  ELSE ParseFail

\* The member whose key is at i - 2 and whose value was read as v.
ParseMemberValue(text, key, v, props) ==
  IF v.ok THEN ParseAfterMember(text, v.next, SetProp(props, key, v.value))
  ELSE ParseFail

ParseMembers(text, i, props) ==
  IF i + 1 > Len(text) THEN ParseFail
  ELSE IF text[i][1] # "string" \/ text[i + 1] # Colon THEN ParseFail
  ELSE ParseMemberValue(text, text[i][2], ParseValue(text, i + 2), props)

ParseValue(text, i) ==
  IF i > Len(text) THEN ParseFail
  ELSE IF text[i][1] \in {"string", "number", "null"}
         THEN [ok |-> TRUE, value |-> text[i], next |-> i + 1]
  ELSE IF text[i] = LBrace
         THEN IF i + 1 <= Len(text) /\ text[i + 1] = RBrace
                THEN [ok |-> TRUE, value |-> JsObject(<< >>), next |-> i + 2]
                ELSE ParseMembers(text, i + 1, << >>)
  ELSE ParseFail

\* The whole text must be one value.
ParseWhole(text, r) ==
  IF r.ok /\ r.next = Len(text) + 1 THEN [ok |-> TRUE, value |-> r.value]
  ELSE ParseFail

JSONParse(text) == ParseWhole(text, ParseValue(text, 1))

(***************************************************************************)
(* localStorage: a function from the stored keys to their texts.  Which    *)
(* operations of a service call throw is the record `faults`: getItem,     *)
(* removeItem and key throw or not, setItem = n > 0 says the n-th setItem  *)
(* of the call throws.                                                     *)
(***************************************************************************)
EmptyStorage == [ k \in {} |-> << >> ]

\* localStorage.getItem(key): the text, or null (here Undefined) when absent.
getItem(store, key) == IF key \in DOMAIN store THEN Some(store[key]) ELSE Undefined

\* localStorage.setItem(key, value).
setItem(store, key, value) ==
  [ k \in (DOMAIN store) \cup {key} |-> IF k = key THEN value ELSE store[k] ]

\* localStorage.removeItem(key).
removeItem(store, key) == [ k \in (DOMAIN store) \ {key} |-> store[k] ]

\* localStorage.key(i) throws or not: the field `key`.
NoFaults == [getItem |-> FALSE, setItem |-> 0, removeItem |-> FALSE, key |-> FALSE]

\* The characters of the strings that are keys of localStorage.
Characters(s) ==
  CASE s = "pregnancy_calendar_" ->
         << "p", "r", "e", "g", "n", "a", "n", "c", "y", "_", "c", "a",
            "l", "e", "n", "d", "a", "r", "_" >>
    [] s = "pregnancy_calendar_preferences" ->
         << "p", "r", "e", "g", "n", "a", "n", "c", "y", "_", "c", "a",
            "l", "e", "n", "d", "a", "r", "_", "p", "r", "e", "f", "e",
            "r", "e", "n", "c", "e", "s" >>
    [] s = "pregnancy_calendar_other" ->
         << "p", "r", "e", "g", "n", "a", "n", "c", "y", "_", "c", "a",
            "l", "e", "n", "d", "a", "r", "_", "o", "t", "h", "e", "r" >>
    [] s = "unrelated_key" ->
         << "u", "n", "r", "e", "l", "a", "t", "e", "d", "_", "k", "e",
            "y" >>
    [] s = "invalid_key" ->
         << "i", "n", "v", "a", "l", "i", "d", "_", "k", "e", "y" >>

\* String.prototype.startsWith(searchString).
startsWith(s, searchString) ==
  /\ Len(Characters(searchString)) <= Len(Characters(s))
  /\ SubSeq(Characters(s), 1, Len(Characters(searchString))) = Characters(searchString)

(***************************************************************************)
(* StorageService.  The service object is the record svc: the localStorage *)
(* it writes to, the value of its preferencesSubject, and the latest value *)
(* delivered to a subscriber of getPreferences() (NotSubscribed before     *)
(* there is one).  A method gives the service afterwards and what it       *)
(* returns.                                                                *)
(***************************************************************************)
PREFERENCES_KEY == "pregnancy_calendar_preferences"

DEFAULT_PREFERENCES ==
  JsObject(<< << "lmpDate", JsString("") >>,
              << "themeColor", JsString("neutral") >>,
              << "viewMode", JsString("summary") >>,
              << "dateFormat", JsString("MM/DD/YYYY") >> >>)

NotSubscribed == << "unsubscribed" >>

\* preferencesSubject.next(value): the value is kept and delivered.
SubjectNext(svc, value) ==
  [ svc EXCEPT !.preferencesSubject = value,
               !.received = IF @ = NotSubscribed THEN @ ELSE value ]

\* getPreferences().subscribe(...): the current value is delivered at once.
Subscribed(svc) == [ svc EXCEPT !.received = svc.preferencesSubject ]

getCurrentPreferences(svc) == svc.preferencesSubject

\* Mutant: the new preferences are written but not published.
savePreferences_NotPublished(svc, preferences, faults) ==
  IF faults.setItem = 1
    THEN [svc |-> svc, returns |-> FALSE]
    ELSE [svc |-> [svc EXCEPT !.localStorage =
                                  setItem(@, PREFERENCES_KEY, JSONStringify(preferences))],
          returns |-> TRUE]

\* Mutant: the new preferences are published before they are written.
savePreferences_PublishedFirst(svc, preferences, faults) ==
  IF faults.setItem = 1
    THEN [svc |-> SubjectNext(svc, preferences), returns |-> FALSE]
    ELSE [svc |-> SubjectNext([svc EXCEPT !.localStorage =
                                  setItem(@, PREFERENCES_KEY, JSONStringify(preferences))],
                              preferences),
          returns |-> TRUE]

savePreferences(svc, preferences, faults) ==
  IF faults.setItem = 1
    THEN [svc |-> svc, returns |-> FALSE]
    ELSE [svc |-> SubjectNext([svc EXCEPT !.localStorage =
                                  setItem(@, PREFERENCES_KEY, JSONStringify(preferences))],
                              preferences),
          returns |-> TRUE]

\* Mutant: the updates are always laid over the defaults.
updatePreferences_OverDefaults(svc, updates, faults) ==
  savePreferences(svc, Spread(DEFAULT_PREFERENCES, updates), faults)

updatePreferences(svc, updates, faults) ==
  IF ~Truthy(getCurrentPreferences(svc))
    THEN savePreferences(svc, Spread(DEFAULT_PREFERENCES, updates), faults)
    ELSE savePreferences(svc, Spread(getCurrentPreferences(svc), updates), faults)

updateLmpDate(svc, date, faults) ==
  updatePreferences(svc, JsObject(<< << "lmpDate", JsString(date) >> >>), faults)

updateThemeColor(svc, themeColor, faults) ==
  updatePreferences(svc, JsObject(<< << "themeColor", JsString(themeColor) >> >>), faults)

updateViewMode(svc, viewMode, faults) ==
  updatePreferences(svc, JsObject(<< << "viewMode", JsString(viewMode) >> >>), faults)

\* Mutant: any preferences count as initialized.
isPreferencesInitialized_AnyPreferences(svc) ==
  Truthy(getCurrentPreferences(svc))

\* !!(preferences && preferences.lmpDate)
isPreferencesInitialized(svc) ==
  IF ~Truthy(getCurrentPreferences(svc)) THEN FALSE
  ELSE Truthy(GetProp(getCurrentPreferences(svc), "lmpDate"))

\* Mutant: the key is removed but null is not published.
clearPreferences_NotPublished(svc, faults) ==
  IF faults.removeItem
    THEN [svc |-> svc, returns |-> FALSE]
    ELSE [svc |-> [svc EXCEPT !.localStorage = removeItem(@, PREFERENCES_KEY)],
          returns |-> TRUE]

clearPreferences(svc, faults) ==
  IF faults.removeItem
    THEN [svc |-> svc, returns |-> FALSE]
    ELSE [svc |-> SubjectNext([svc EXCEPT !.localStorage =
                                  removeItem(@, PREFERENCES_KEY)],
                              Null),
          returns |-> TRUE]

\* Mutant: any string is taken for a view mode.
validatePreferences_AnyViewMode(preferences) ==
  IF ~Truthy(preferences) \/ typeof(preferences) # "object" THEN FALSE
  ELSE /\ typeof(GetProp(preferences, "lmpDate")) = "string"
       /\ typeof(GetProp(preferences, "themeColor")) = "string"
       /\ typeof(GetProp(preferences, "viewMode")) = "string"
       /\ GetProp(preferences, "themeColor")[2] \in {"neutral", "boy", "girl"}

validatePreferences(preferences) ==
  IF ~Truthy(preferences) \/ typeof(preferences) # "object" THEN FALSE
  ELSE /\ typeof(GetProp(preferences, "lmpDate")) = "string"
       /\ typeof(GetProp(preferences, "themeColor")) = "string"
       /\ typeof(GetProp(preferences, "viewMode")) = "string"
       /\ GetProp(preferences, "themeColor")[2] \in {"neutral", "boy", "girl"}
       /\ GetProp(preferences, "viewMode")[2] \in {"summary", "table"}

\* loadPreferences once the text is parsed (or JSON.parse has thrown).
LoadParsed(svc, parsed, faults) ==
  IF ~parsed.ok THEN clearPreferences(svc, faults).svc
  ELSE IF validatePreferences(parsed.value) THEN SubjectNext(svc, parsed.value)
  ELSE clearPreferences(svc, faults).svc

\* loadPreferences once getItem has returned item.
LoadItem(svc, item, faults) ==
  IF item = Undefined THEN svc
  ELSE IF item[1] = << >> THEN svc
  ELSE LoadParsed(svc, JSONParse(item[1]), faults)

loadPreferences(svc, faults) ==
  IF faults.getItem THEN clearPreferences(svc, faults).svc
  ELSE LoadItem(svc, getItem(svc.localStorage, PREFERENCES_KEY), faults)

\* new StorageService() over the localStorage `store`.
StorageService(store, faults) ==
  loadPreferences([ localStorage |-> store,
                    preferencesSubject |-> Null,
                    received |-> NotSubscribed ], faults)

\* The keys the loop of exportStorageData copies.
ExportedKeys(store) == { k \in DOMAIN store : startsWith(k, "pregnancy_calendar_") }

\* Mutant: every stored entry is exported.
exportStorageData_EveryKey(svc, faults) ==
  IF faults.key /\ DOMAIN svc.localStorage # {}
    THEN [svc |-> svc, returns |-> EmptyStorage]
  ELSE IF faults.getItem /\ ExportedKeys(svc.localStorage) # {}
    THEN [svc |-> svc, returns |-> EmptyStorage]
  ELSE [svc |-> svc, returns |-> svc.localStorage]

\* The object returned is a function from its keys to their texts: key(0) or
\* the first getItem throws, or every prefixed entry is copied.
exportStorageData(svc, faults) ==
  IF faults.key /\ DOMAIN svc.localStorage # {}
    THEN [svc |-> svc, returns |-> EmptyStorage]
  ELSE IF faults.getItem /\ ExportedKeys(svc.localStorage) # {}
    THEN [svc |-> svc, returns |-> EmptyStorage]
  ELSE [svc |-> svc,
        returns |-> [ k \in ExportedKeys(svc.localStorage) |-> svc.localStorage[k] ]]

\* Object.entries(data).forEach(...) from entry i on, where the failAt-th
\* setItem still to come throws: the store then, and whether one has thrown.
\* The value of an entry is a JS value; a string value carries its text.
RECURSIVE ImportEntries(_, _, _, _)
ImportEntries(store, entries, i, failAt) ==
  IF i > Len(entries) THEN [store |-> store, thrown |-> FALSE]
  ELSE IF startsWith(entries[i][1], "pregnancy_calendar_") /\ typeof(entries[i][2]) = "string"
    THEN IF failAt = 1 THEN [store |-> store, thrown |-> TRUE]
         ELSE ImportEntries(setItem(store, entries[i][1], entries[i][2][2]),
                            entries, i + 1, failAt - 1)
  ELSE ImportEntries(store, entries, i + 1, failAt)

\* importStorageData once the entries are written (or a setItem has thrown).
ImportWritten(svc, written, faults) ==
  IF written.thrown
    THEN [svc |-> [svc EXCEPT !.localStorage = written.store], returns |-> FALSE]
    ELSE [svc |-> loadPreferences([svc EXCEPT !.localStorage = written.store], faults),
          returns |-> TRUE]

importStorageData(svc, data, faults) ==
  ImportWritten(svc, ImportEntries(svc.localStorage, data[2], 1, faults.setItem), faults)

(***************************************************************************)
(* The state machine: a caller holds a reference date and makes one call   *)
(* of the (stateless) service; the call and its result are recorded.       *)
(***************************************************************************)
\* Local midnight of year-month-day (month 1-based) plus a time of day.
DateAt(year, month, date, tod) == MakeDay(year, month - 1, date) * TicksPerDay + tod

DaysInMonth(year, month) ==
  IF month = 2 THEN (IF IsLeap(year) THEN 29 ELSE 28)
  ELSE IF month \in {4, 6, 9, 11} THEN 30 ELSE 31

\* The reference dates: every day of FirstYear..LastYear at every time of day.
ReferenceDates ==
  UNION { { DateAt(y, m, d, tod) : d \in 1..DaysInMonth(y, m),
                                   tod \in 0..(TicksPerDay - 1) } :
          y \in FirstYear..LastYear, m \in 1..12 }

\* The reference dates at the first, the 15th and the last day of a month.
MonthEdgeReferenceDates ==
  { d \in ReferenceDates :
       getDate(d) \in {1, 15, DaysInMonth(getFullYear(d), getMonth(d) + 1)} }

\* The instants the clock may show: from a little before the reference date
\* to a little after the due date, at every time of day.
Instants(lmp) ==
  { (Day(lmp) + d) * TicksPerDay + tod :
       d \in (0 - MaxEarlyDays)..(PREGNANCY_DURATION_DAYS + MaxLateDays),
       tod \in 0..(TicksPerDay - 1) }

NoCall == [op |-> "none", lmpDate |-> 0, arg |-> 0]

\* The storage service of the calculator's caller: constructed over an empty
\* localStorage, and not called.
StorageAtRest ==
  /\ localStorage = EmptyStorage
  /\ preferencesSubject = Null
  /\ received = NotSubscribed

Init ==
  /\ lmpDate \in ReferenceDates
  /\ call = NoCall
  /\ result = Undefined
  /\ StorageAtRest

InitAge ==
  /\ lmpDate \in MonthEdgeReferenceDates
  /\ call = NoCall
  /\ result = Undefined
  /\ StorageAtRest

CalculateDueDate ==
  /\ call = NoCall
  /\ call' = [op |-> "calculateDueDate", lmpDate |-> lmpDate, arg |-> 0]
  /\ result' = calculateDueDate(lmpDate)
  /\ lmpDate' = calculateDueDateArgAfter(lmpDate)
  /\ UNCHANGED storageVars

CalculateGestationalAge ==
  /\ call = NoCall
  /\ \E currentDate \in Instants(lmpDate) :
        /\ call' = [op |-> "calculateGestationalAge", lmpDate |-> lmpDate,
                    arg |-> currentDate]
        /\ result' = calculateGestationalAge(lmpDate, currentDate)
  /\ UNCHANGED lmpDate
  /\ UNCHANGED storageVars

GetTrimester ==
  /\ call = NoCall
  /\ \E gestationalWeeks \in 0..MaxWeeks :
        /\ call' = [op |-> "getTrimester", lmpDate |-> lmpDate,
                    arg |-> gestationalWeeks]
        /\ result' = getTrimester(gestationalWeeks)
  /\ UNCHANGED lmpDate
  /\ UNCHANGED storageVars

GeneratePregnancyCalendar ==
  /\ call = NoCall
  /\ call' = [op |-> "generatePregnancyCalendar", lmpDate |-> lmpDate, arg |-> 0]
  /\ result' = generatePregnancyCalendar(lmpDate)
  /\ UNCHANGED lmpDate
  /\ UNCHANGED storageVars

GeneratePregnancySummary ==
  /\ call = NoCall
  /\ \E currentDate \in Instants(lmpDate) :
        /\ call' = [op |-> "generatePregnancySummary", lmpDate |-> lmpDate,
                    arg |-> currentDate]
        /\ result' = generatePregnancySummary(lmpDate, currentDate)
  /\ UNCHANGED lmpDate
  /\ UNCHANGED storageVars

GenerateMonthFilters ==
  /\ call = NoCall
  /\ call' = [op |-> "generateMonthFilters", lmpDate |-> lmpDate, arg |-> 0]
  /\ result' = generateMonthFilters(lmpDate)
  /\ UNCHANGED lmpDate
  /\ UNCHANGED storageVars

\* filterByMonth called with the calendar and one of its month filters.
FilterByMonthWith(pregnancyDays, monthFilters) ==
  \E f \in 1..Len(monthFilters) :
     /\ call' = [op |-> "filterByMonth", lmpDate |-> lmpDate,
                 arg |-> [pregnancyDays |-> pregnancyDays,
                          monthFilter |-> monthFilters[f]]]
     /\ result' = filterByMonth(pregnancyDays, monthFilters[f])

FilterByMonth ==
  /\ call = NoCall
  /\ FilterByMonthWith(generatePregnancyCalendar(lmpDate),
                       generateMonthFilters(lmpDate))
  /\ UNCHANGED lmpDate
  /\ UNCHANGED storageVars

\* The calendar operations, from every reference date.
Next ==
  \/ CalculateDueDate
  \/ GeneratePregnancyCalendar
  \/ GenerateMonthFilters

Spec == Init /\ [][Next]_vars

\* The age, trimester, summary, calendar and month-filtering operations, from
\* the month-edge reference dates and every instant of the clock.
NextAge ==
  \/ CalculateGestationalAge
  \/ GetTrimester
  \/ GeneratePregnancySummary
  \/ GeneratePregnancyCalendar
  \/ FilterByMonth

SpecAge == InitAge /\ [][NextAge]_vars

(***************************************************************************)
(* The storage state machine: a service constructed over some localStorage *)
(* and called any number of times.                                         *)
(***************************************************************************)
ThemeColors == {"neutral", "boy", "girl"}
ViewModes == {"summary", "table"}
DateFormats == {"MM/DD/YYYY"}
\* The lmpDate a caller passes is the date of the setup form, never empty.
LmpDateStrings == {"2024-01-15"}

\* The one-property lists with key and a string of values, and the empty list.
OneProp(key, values) == { << << key, JsString(v) >> >> : v \in values }
OptionalProp(key, values) == { << >> } \cup OneProp(key, values)

\* The UserPreferences objects a caller passes: dateFormat is optional.
PreferencesInputs ==
  { JsObject(a \o b \o c \o d) :
      a \in OneProp("lmpDate", LmpDateStrings),
      b \in OneProp("themeColor", ThemeColors),
      c \in OneProp("viewMode", ViewModes),
      d \in OptionalProp("dateFormat", DateFormats) }

\* The Partial<UserPreferences> objects a caller passes.
UpdatesInputs ==
  { JsObject(a \o b \o c \o d) :
      a \in OptionalProp("lmpDate", LmpDateStrings),
      b \in OptionalProp("themeColor", ThemeColors),
      c \in OptionalProp("viewMode", ViewModes),
      d \in OptionalProp("dateFormat", DateFormats) }

\* What may be stored under the preferences key before the service exists.
StoredTexts ==
  { JSONStringify(p) : p \in PreferencesInputs }
    \cup { JSONStringify(DEFAULT_PREFERENCES),
           << >>,
           << Word("invalid"), Word("json") >>,
           << JsString("not an object") >>,
           << Null >>,
           JSONStringify(JsObject(<< << "lmpDate", JsString("2024-01-01") >> >>)),
           JSONStringify(JsObject(<< << "lmpDate", JsString("2024-01-01") >>,
                                     << "themeColor", JsString("invalid-theme") >>,
                                     << "viewMode", JsString("summary") >> >>)),
           JSONStringify(JsObject(<< << "lmpDate", JsString("2024-01-01") >>,
                                     << "themeColor", JsString("neutral") >>,
                                     << "viewMode", JsString("invalid-view") >> >>)),
           JSONStringify(JsObject(<< << "lmpDate", JsNumber(20240101) >>,
                                     << "themeColor", JsString("neutral") >>,
                                     << "viewMode", JsString("summary") >> >>)) }

InitialStores ==
  { EmptyStorage } \cup { setItem(EmptyStorage, PREFERENCES_KEY, t) : t \in StoredTexts }

ReadFaults == { [NoFaults EXCEPT !.getItem = g, !.removeItem = r] : g, r \in BOOLEAN }
WriteFaults == { [NoFaults EXCEPT !.setItem = n] : n \in 0..1 }
RemoveFaults == { [NoFaults EXCEPT !.removeItem = r] : r \in BOOLEAN }

\* The service object, of the variables.
Service ==
  [ localStorage |-> localStorage,
    preferencesSubject |-> preferencesSubject,
    received |-> received ]

\* The variables hold the service object svc.
ServiceIs(svc) ==
  /\ localStorage = svc.localStorage
  /\ preferencesSubject = svc.preferencesSubject
  /\ received = svc.received

\* The service has been constructed over `store`: the call is on record.
InitStorage ==
  /\ lmpDate = DateAt(FirstYear, 1, 1, 0)
  /\ result = Undefined
  /\ \E store \in InitialStores, faults \in ReadFaults :
        /\ call = [op |-> "constructor", lmpDate |-> 0, arg |-> store, faults |-> faults]
        /\ ServiceIs(StorageService(store, faults))

\* The call op(arg) under faults has returned: out is the service afterwards
\* and the value returned.
Returned(op, arg, faults, out) ==
  /\ call' = [op |-> op, lmpDate |-> 0, arg |-> arg, faults |-> faults]
  /\ result' = out.returns
  /\ localStorage' = out.svc.localStorage
  /\ preferencesSubject' = out.svc.preferencesSubject
  /\ received' = out.svc.received
  /\ UNCHANGED lmpDate

Subscribe ==
  /\ received = NotSubscribed
  /\ Returned("subscribe", Null, NoFaults,
              [svc |-> Subscribed(Service), returns |-> Undefined])

SavePreferences ==
  \E preferences \in PreferencesInputs, faults \in WriteFaults :
     Returned("savePreferences", preferences, faults,
              savePreferences(Service, preferences, faults))

UpdatePreferences ==
  \E updates \in UpdatesInputs, faults \in WriteFaults :
     Returned("updatePreferences", updates, faults,
              updatePreferences(Service, updates, faults))

UpdateLmpDate ==
  \E date \in LmpDateStrings, faults \in WriteFaults :
     Returned("updateLmpDate", JsString(date), faults,
              updateLmpDate(Service, date, faults))

UpdateThemeColor ==
  \E themeColor \in ThemeColors, faults \in WriteFaults :
     Returned("updateThemeColor", JsString(themeColor), faults,
              updateThemeColor(Service, themeColor, faults))

UpdateViewMode ==
  \E viewMode \in ViewModes, faults \in WriteFaults :
     Returned("updateViewMode", JsString(viewMode), faults,
              updateViewMode(Service, viewMode, faults))

ClearPreferences ==
  \E faults \in RemoveFaults :
     Returned("clearPreferences", Null, faults, clearPreferences(Service, faults))

IsPreferencesInitialized ==
  Returned("isPreferencesInitialized", Null, NoFaults,
           [svc |-> Service, returns |-> isPreferencesInitialized(Service)])

\* The page is loaded again: a new service over the localStorage as it is.
NewStorageService ==
  \E faults \in ReadFaults :
     Returned("constructor", localStorage, faults,
              [svc |-> StorageService(localStorage, faults), returns |-> Undefined])

NextStorage ==
  \/ NewStorageService
  \/ Subscribe
  \/ IsPreferencesInitialized
  \/ SavePreferences
  \/ UpdatePreferences
  \/ UpdateLmpDate
  \/ UpdateThemeColor
  \/ UpdateViewMode
  \/ ClearPreferences

SpecStorage == InitStorage /\ [][NextStorage]_vars

(***************************************************************************)
(* Export and import: a service constructed over a localStorage that other *)
(* code has written to as well, then saved to, updated, cleared, exported  *)
(* and imported any number of times.                                       *)
(***************************************************************************)
\* The texts of the tests: '{"other": "data"}', 'should not be exported',
\* '{"lmpDate": "2024-01-01"}', '{"test": "value"}', 'should be ignored'.
OtherText == JSONStringify(JsObject(<< << "other", JsString("data") >> >>))
UnrelatedText == << Word("should"), Word("not"), Word("be"), Word("exported") >>
IncompleteText == JSONStringify(JsObject(<< << "lmpDate", JsString("2024-01-01") >> >>))
TestText == JSONStringify(JsObject(<< << "test", JsString("value") >> >>))
IgnoredText == << Word("should"), Word("be"), Word("ignored") >>

\* Preferences a backup holds.
ImportedPreferences ==
  JsObject(<< << "lmpDate", JsString("2024-03-01") >>,
              << "themeColor", JsString("girl") >>,
              << "viewMode", JsString("table") >> >>)

\* The one-entry lists of a key with each of the values, and the empty list.
OptionalEntry(key, values) == { << >> } \cup { << << key, v >> >> : v \in values }

\* The objects passed to importStorageData.
ImportInputs ==
  { JsObject(a \o b \o c) :
      a \in OptionalEntry(PREFERENCES_KEY,
                          { JsString(JSONStringify(ImportedPreferences)),
                            JsString(IncompleteText),
                            JsString(<< >>),
                            JsNumber(1) }),
      b \in OptionalEntry("pregnancy_calendar_other", { JsString(TestText) }),
      c \in { << << "invalid_key", JsString(IgnoredText) >> >>,
              << << "unrelated_key", JsString(IgnoredText) >> >> } }

ImportFaults ==
  { NoFaults, [NoFaults EXCEPT !.setItem = 1], [NoFaults EXCEPT !.setItem = 2],
    [NoFaults EXCEPT !.getItem = TRUE], [NoFaults EXCEPT !.removeItem = TRUE] }

ExportFaults ==
  { NoFaults, [NoFaults EXCEPT !.key = TRUE], [NoFaults EXCEPT !.getItem = TRUE] }

\* localStorage before the service exists: empty, or with entries of others.
SharedStores ==
  { EmptyStorage,
    setItem(setItem(EmptyStorage, "pregnancy_calendar_other", OtherText),
            "unrelated_key", UnrelatedText) }

InitTransfer ==
  /\ lmpDate = DateAt(FirstYear, 1, 1, 0)
  /\ result = Undefined
  /\ \E store \in SharedStores :
        /\ call = [op |-> "constructor", lmpDate |-> 0, arg |-> store, faults |-> NoFaults]
        /\ ServiceIs(StorageService(store, NoFaults))

ExportStorageData ==
  \E faults \in ExportFaults :
     Returned("exportStorageData", Null, faults, exportStorageData(Service, faults))

ImportStorageData ==
  \E data \in ImportInputs, faults \in ImportFaults :
     Returned("importStorageData", data, faults,
              importStorageData(Service, data, faults))

NextTransfer ==
  \/ UpdateLmpDate
  \/ UpdateThemeColor
  \/ ClearPreferences
  \/ ExportStorageData
  \/ ImportStorageData

SpecTransfer == InitTransfer /\ [][NextTransfer]_vars

(***************************************************************************)
(* Calendar dates as the claims speak of them.                             *)
(***************************************************************************)
\* The calendar date <<year, month (1-based), day>> of a Date.
Civil(t) == << getFullYear(t), getMonth(t) + 1, getDate(t) >>

\* The calendar date after c.
NextCivil(c) ==
  IF c[3] < DaysInMonth(c[1], c[2]) THEN << c[1], c[2], c[3] + 1 >>
  ELSE IF c[2] < 12 THEN << c[1], c[2] + 1, 1 >>
  ELSE << c[1] + 1, 1, 1 >>

\* Whole calendar days from the reference date of the call to its instant.
ElapsedDays == Day(call.arg) - Day(call.lmpDate)

\* The trimester of a completed-week count.
TrimesterBand(w) ==
  CASE w <= 12 -> "first"
    [] w \in 13..26 -> "second"
    [] w >= 27 -> "third"

(***************************************************************************)
(* C1: generatePregnancyCalendar(R) returns exactly 280 records, the       *)
(* record at position i (from 0) has dayNumber i + 1 and date R plus i     *)
(* calendar days at R's time of day: each record is dated the calendar day *)
(* after its predecessor, across month, year and leap-day boundaries.      *)
(***************************************************************************)
C1_CalendarIs280ContiguousDays ==
  call.op = "generatePregnancyCalendar" =>
    /\ Len(result) = 280
    /\ \A i \in 1..Len(result) :
          /\ result[i].dayNumber = i
          /\ result[i].date = call.lmpDate + (i - 1) * TicksPerDay
    /\ Len(result) >= 1 => Civil(result[1].date) = Civil(call.lmpDate)
    /\ \A i \in 1..(Len(result) - 1) :
          Civil(result[i + 1].date) = NextCivil(Civil(result[i].date))

\* A calendar that starts at the end of a 31-day month and crosses February 29.
C1_Witness ==
  /\ call.op = "generatePregnancyCalendar"
  /\ Len(result) = 280
  /\ getDate(call.lmpDate) = 31
  /\ Civil(result[2].date) = NextCivil(Civil(call.lmpDate))
  /\ \E i \in 1..Len(result) :
        result[i].calendarMonth = 2 /\ getDate(result[i].date) = 29

(***************************************************************************)
(* C2: for an as-of date k >= 0 calendar days after the reference date,    *)
(* calculateGestationalAge returns totalDays = k, weeks = floor(k / 7),    *)
(* days = k mod 7 and formatted = "<weeks> weeks <days + 1> days"; k = 0   *)
(* gives 0/0/0 and "0 weeks 1 days", k = 7 gives weeks = 1, days = 0.      *)
(***************************************************************************)
C2_GestationalAgeOfElapsedDays ==
  (call.op = "calculateGestationalAge" /\ ElapsedDays >= 0) =>
    LET k == ElapsedDays IN
    /\ result.totalDays = k
    /\ result.weeks = k \div 7
    /\ result.days = k % 7
    /\ result.days \in 0..6
    /\ result.totalDays = result.weeks * 7 + result.days
    /\ result.formatted =
          ToString(k \div 7) \o " weeks " \o ToString((k % 7) + 1) \o " days"
    /\ k = 0 => /\ result.totalDays = 0 /\ result.weeks = 0 /\ result.days = 0
                /\ result.formatted = "0 weeks 1 days"
    /\ k = 7 => result.weeks = 1 /\ result.days = 0

\* Seven days on, asked at another time of day than the reference date's.
C2_Witness ==
  /\ call.op = "calculateGestationalAge"
  /\ ElapsedDays = 7
  /\ TimeWithinDay(call.arg) # TimeWithinDay(call.lmpDate)
  /\ result.weeks = 1
  /\ result.days = 0

(***************************************************************************)
(* C3: getTrimester(w) is 'first' for w in 0..12, 'second' for w in        *)
(* 13..26 and 'third' for w >= 27, and the trimester of the summary and of *)
(* every calendar record is that function of the completed weeks.          *)
(***************************************************************************)
C3_TrimesterOfCompletedWeeks ==
  /\ call.op = "getTrimester" =>
        /\ call.arg \in 0..12 => result = "first"
        /\ call.arg \in 13..26 => result = "second"
        /\ call.arg >= 27 => result = "third"
  /\ call.op = "generatePregnancySummary" =>
        result.currentTrimester = TrimesterBand(ElapsedDays \div 7)
  /\ call.op = "generatePregnancyCalendar" =>
        \A i \in 1..Len(result) :
           result[i].trimester = TrimesterBand((result[i].dayNumber - 1) \div 7)

\* The first week count of the third trimester.
C3_Witness ==
  /\ call.op = "getTrimester"
  /\ call.arg = 27
  /\ result = "third"

(***************************************************************************)
(* C4: in the generated calendar every record with gestationalWeek in      *)
(* 1..12 has trimester 'first', in 13..27 'second', in 28..40 'third'      *)
(* (the week ranges of the README and of the table-view legend).           *)
(***************************************************************************)
C4_TrimesterOfGestationalWeek ==
  call.op = "generatePregnancyCalendar" =>
    \A i \in 1..Len(result) :
       /\ result[i].gestationalWeek \in 1..12 => result[i].trimester = "first"
       /\ result[i].gestationalWeek \in 13..27 => result[i].trimester = "second"
       /\ result[i].gestationalWeek \in 28..40 => result[i].trimester = "third"

(***************************************************************************)
(* C5: calculateDueDate(R) is R plus 280 calendar days and leaves R as it  *)
(* was; the last calendar record (dayNumber 280) is dated one day before   *)
(* the due date; R = 2024-01-01 gives the due date 2024-10-07 and day 280  *)
(* dated 2024-10-06.                                                       *)
(***************************************************************************)
C5_DueDateIs280DaysOn ==
  /\ call.op = "calculateDueDate" =>
        /\ result = call.lmpDate + 280 * TicksPerDay
        /\ lmpDate = call.lmpDate
        /\ Civil(call.lmpDate) = <<2024, 1, 1>> => Civil(result) = <<2024, 10, 7>>
  /\ call.op = "generatePregnancyCalendar" =>
        /\ Len(result) >= 280
        /\ result[280].dayNumber = 280
        /\ result[280].date + TicksPerDay = calculateDueDate(call.lmpDate)
        /\ NextCivil(Civil(result[280].date)) = Civil(calculateDueDate(call.lmpDate))
        /\ Civil(call.lmpDate) = <<2024, 1, 1>> =>
              Civil(result[280].date) = <<2024, 10, 6>>

\* The due date of 2024-01-01.
C5_Witness ==
  /\ call.op = "calculateDueDate"
  /\ Civil(call.lmpDate) = <<2024, 1, 1>>
  /\ Civil(result) = <<2024, 10, 7>>
  /\ lmpDate = call.lmpDate

(***************************************************************************)
(* C6: the record with dayNumber n has gestationalWeek                     *)
(* floor((n - 1) / 7) + 1, in 1..40, dayOfWeek ((n - 1) mod 7) + 1, in     *)
(* 1..7, and gestationalAge "<gestationalWeek - 1> weeks <dayOfWeek> days".*)
(***************************************************************************)
C6_WeekAndDayOfRecord ==
  call.op = "generatePregnancyCalendar" =>
    \A i \in 1..Len(result) :
       LET n == result[i].dayNumber IN
       /\ n \in 1..280
       /\ result[i].gestationalWeek = ((n - 1) \div 7) + 1
       /\ result[i].gestationalWeek \in 1..40
       /\ result[i].dayOfWeek = ((n - 1) % 7) + 1
       /\ result[i].dayOfWeek \in 1..7
       /\ result[i].gestationalAge =
             ToString(result[i].gestationalWeek - 1) \o " weeks "
                \o ToString(result[i].dayOfWeek) \o " days"

\* The last record: week 40, day 7.
C6_Witness ==
  /\ call.op = "generatePregnancyCalendar"
  /\ Len(result) = 280
  /\ result[280].gestationalWeek = 40
  /\ result[280].dayOfWeek = 7
  /\ result[280].gestationalAge = "39 weeks 7 days"

(***************************************************************************)
(* C7: developmentMilestone is present exactly on the records with         *)
(* dayOfWeek 1 of the weeks 4, 8, ..., 40 of the development table;        *)
(* estimatedFetalWeight and estimatedFetalLength are present on all seven  *)
(* records of those weeks and on no record of another week.                *)
(***************************************************************************)
C7_MilestoneOnFirstDaySizesAllWeek ==
  call.op = "generatePregnancyCalendar" =>
    LET tableWeeks == {4, 8, 12, 16, 20, 24, 28, 32, 36, 40} IN
    /\ \A i \in 1..Len(result) :
          /\ (result[i].developmentMilestone # Undefined)
                <=> (result[i].dayOfWeek = 1 /\ result[i].gestationalWeek \in tableWeeks)
          /\ (result[i].estimatedFetalWeight # Undefined)
                <=> (result[i].gestationalWeek \in tableWeeks)
          /\ (result[i].estimatedFetalLength # Undefined)
                <=> (result[i].gestationalWeek \in tableWeeks)
    /\ \A w \in tableWeeks :
          Cardinality({ i \in 1..Len(result) :
                          /\ result[i].gestationalWeek = w
                          /\ result[i].estimatedFetalWeight # Undefined
                          /\ result[i].estimatedFetalLength # Undefined }) = 7

\* Week 20: the milestone on its first day only, the sizes also on its second.
C7_Witness ==
  /\ call.op = "generatePregnancyCalendar"
  /\ Len(result) = 280
  /\ result[134].gestationalWeek = 20 /\ result[134].dayOfWeek = 1
  /\ result[134].developmentMilestone = Some("Halfway point - anatomy scan time")
  /\ result[135].gestationalWeek = 20
  /\ result[135].developmentMilestone = Undefined
  /\ result[135].estimatedFetalWeight # Undefined
  /\ result[135].estimatedFetalLength # Undefined

(***************************************************************************)
(* C8: generatePregnancySummary reports daysRemaining >= 0 at every        *)
(* instant, and 0 ten days after the due date.                             *)
(***************************************************************************)
C8_DaysRemainingNeverNegative ==
  call.op = "generatePregnancySummary" =>
    /\ result.daysRemaining >= 0
    /\ call.arg = call.lmpDate + (280 + 10) * TicksPerDay => result.daysRemaining = 0

\* Ten days after the due date.
C8_Witness ==
  /\ call.op = "generatePregnancySummary"
  /\ call.arg = calculateDueDate(call.lmpDate) + 10 * TicksPerDay
  /\ result.daysRemaining = 0

RECURSIVE SumOfCounts(_)
SumOfCounts(filters) ==
  IF filters = << >> THEN 0
  ELSE Head(filters).pregnancyDaysCount + SumOfCounts(Tail(filters))

C10_MonthFiltersPartitionCalendar ==
  call.op = "generateMonthFilters" =>
    LET days == generatePregnancyCalendar(call.lmpDate)
        months == { << days[i].calendarYear, days[i].calendarMonth >> :
                       i \in 1..Len(days) }
        DaysOf(ym) == { i \in 1..Len(days) :
                          << days[i].calendarYear, days[i].calendarMonth >> = ym }
        First(ym) == CHOOSE i \in DaysOf(ym) : \A j \in DaysOf(ym) : i <= j
        Last(ym) == CHOOSE i \in DaysOf(ym) : \A j \in DaysOf(ym) : j <= i
    IN
    /\ Len(result) = Cardinality(months)
    /\ { << result[f].year, result[f].month >> : f \in 1..Len(result) } = months
    /\ \A f \in 1..Len(result) :
          LET ym == << result[f].year, result[f].month >> IN
          /\ result[f].pregnancyDaysCount = Cardinality(DaysOf(ym))
          /\ result[f].startDate = days[First(ym)].date
          /\ result[f].endDate = days[Last(ym)].date
    /\ SumOfCounts(result) = 280
    /\ \A f \in 1..(Len(result) - 1) :
          getTime(result[f].startDate) < getTime(result[f + 1].startDate)

\* Filters of a calendar that runs into the next year.
C10_Witness ==
  /\ call.op = "generateMonthFilters"
  /\ Len(result) >= 10
  /\ result[Len(result)].year = result[1].year + 1
  /\ result[1].pregnancyDaysCount < 28

(***************************************************************************)
(* C11: for every filter f of generateMonthFilters(R),                     *)
(* filterByMonth(generatePregnancyCalendar(R), f) returns exactly the      *)
(* calendar records whose (calendarMonth, calendarYear) is (f.month,       *)
(* f.year), in their original relative order, f.pregnancyDaysCount of them.*)
(***************************************************************************)
C11_FilterByMonthSelectsTheMonth ==
  call.op = "filterByMonth" =>
    LET days == call.arg.pregnancyDays
        f == call.arg.monthFilter
        inMonth == { i \in 1..Len(days) :
                       /\ days[i].calendarMonth = f.month
                       /\ days[i].calendarYear = f.year }
    IN
    /\ Len(days) = 280
    /\ Len(result) = Cardinality(inMonth)
    /\ Len(result) = f.pregnancyDaysCount
    /\ { result[j] : j \in 1..Len(result) } = { days[i] : i \in inMonth }
    /\ \A j \in 1..(Len(result) - 1) :
          result[j].dayNumber < result[j + 1].dayNumber

\* The filter of a month of the year after the reference date's: part of the
\* calendar is returned, not all of it.
C11_Witness ==
  /\ call.op = "filterByMonth"
  /\ call.arg.monthFilter.year = getFullYear(call.lmpDate) + 1
  /\ Len(result) >= 28
  /\ Len(result) < Len(call.arg.pregnancyDays)
  /\ result[1].calendarYear = call.arg.monthFilter.year

(***************************************************************************)
(* C12: calculateGestationalAge depends only on the calendar dates of its  *)
(* two arguments: with the time of day of either argument changed and its  *)
(* calendar date kept, weeks, days, totalDays and formatted are the same.  *)
(***************************************************************************)
C12_AgeDependsOnCalendarDatesOnly ==
  call.op = "calculateGestationalAge" =>
    \A lmpTime, asOfTime \in 0..(TicksPerDay - 1) :
       calculateGestationalAge(Day(call.lmpDate) * TicksPerDay + lmpTime,
                               Day(call.arg) * TicksPerDay + asOfTime) = result

\* Both arguments away from midnight, at different times of day.
C12_Witness ==
  /\ call.op = "calculateGestationalAge"
  /\ TimeWithinDay(call.lmpDate) # 0
  /\ TimeWithinDay(call.arg) # TimeWithinDay(call.lmpDate)
  /\ result.totalDays = 100
  /\ result = calculateGestationalAge(Day(call.lmpDate) * TicksPerDay,
                                      Day(call.arg) * TicksPerDay)

(***************************************************************************)
(* The fixed lists the summary draws from, as the claims state them.       *)
(***************************************************************************)
MilestoneList ==
  << <<12, "End of first trimester">>, <<20, "Anatomy scan">>,
     <<24, "Viability milestone">>, <<28, "Third trimester begins">>,
     <<32, "Rapid brain development">>, <<36, "Baby considered full-term soon">>,
     <<40, "Due date">> >>

AppointmentList ==
  << <<8, "First Prenatal Visit">>, <<12, "First Trimester Screening">>,
     <<16, "Routine Checkup">>, <<20, "Anatomy Scan">>,
     <<24, "Glucose Screening">>, <<28, "Third Trimester Begin">>,
     <<32, "Routine Checkup">>, <<36, "Group B Strep Test">>,
     <<38, "Pre-delivery Checkup">>, <<40, "Due Date Assessment">> >>

\* The first `most` entries of `list` (ascending by week) after week w,
\* each rendered "Week <week>: <text>".
NextAfter(list, w, most) ==
  LET passed == Cardinality({ i \in 1..Len(list) : list[i][1] <= w })
  IN  [ i \in 1..Min(most, Len(list) - passed) |->
          "Week " \o ToString(list[passed + i][1]) \o ": " \o list[passed + i][2] ]

\* The completed weeks the summary of the call is computed from.
CompletedWeeks == ElapsedDays \div 7

(***************************************************************************)
(* C13: with w completed weeks, the summary's upcomingMilestones are the   *)
(* entries of the milestone list (weeks 12, 20, 24, 28, 32, 36, 40) with   *)
(* week > w, ascending, the first 3 of them, each "Week <week>:            *)
(* <description>": at most 3 entries, none exactly when w >= 40.           *)
(***************************************************************************)
C13_UpcomingMilestonesAreNextThree ==
  call.op = "generatePregnancySummary" =>
    /\ result.upcomingMilestones = NextAfter(MilestoneList, CompletedWeeks, 3)
    /\ Len(result.upcomingMilestones) <= 3
    /\ (result.upcomingMilestones = << >>) <=> (CompletedWeeks >= 40)

\* In the week of a milestone: week 20 is no longer upcoming.
C13_Witness ==
  /\ call.op = "generatePregnancySummary"
  /\ CompletedWeeks = 20
  /\ result.upcomingMilestones =
        << "Week 24: Viability milestone", "Week 28: Third trimester begins",
           "Week 32: Rapid brain development" >>

(***************************************************************************)
(* C14: with w completed weeks, the summary's nextAppointments are the     *)
(* appointment-table entries with week > w, in table order, the first 2 of *)
(* them, each "Week <week>: <appointmentType>": at most 2 entries, none    *)
(* exactly when w >= 40.                                                   *)
(***************************************************************************)
C14_NextAppointmentsAreNextTwo ==
  call.op = "generatePregnancySummary" =>
    /\ result.nextAppointments = NextAfter(AppointmentList, CompletedWeeks, 2)
    /\ Len(result.nextAppointments) <= 2
    /\ (result.nextAppointments = << >>) <=> (CompletedWeeks >= 40)

\* Late in pregnancy, where the table's weeks are two apart and then end.
C14_Witness ==
  /\ call.op = "generatePregnancySummary"
  /\ CompletedWeeks = 36
  /\ result.nextAppointments =
        << "Week 38: Pre-delivery Checkup", "Week 40: Due Date Assessment" >>

(***************************************************************************)
(* C15: in the calendar the notes of a record are non-empty exactly when   *)
(* its gestationalWeek is 13, 24, 27 or 37; each of those weeks has one    *)
(* fixed note, attached to all 7 records of the week.                      *)
(***************************************************************************)
C15_NotesOnFourWeeksAllSevenDays ==
  call.op = "generatePregnancyCalendar" =>
    LET noteOf == [ w \in {13, 24, 27, 37} |->
                      CASE w = 13 -> "Welcome to the second trimester!"
                        [] w = 24 -> "Viability milestone reached - baby has survival chances if born now"
                        [] w = 27 -> "Welcome to the third trimester!"
                        [] w = 37 -> "Baby is now considered full-term" ]
    IN
    /\ \A i \in 1..Len(result) :
          /\ (result[i].notes # << >>) <=> (result[i].gestationalWeek \in DOMAIN noteOf)
          /\ result[i].gestationalWeek \in DOMAIN noteOf =>
                result[i].notes = << noteOf[result[i].gestationalWeek] >>
    /\ \A w \in DOMAIN noteOf :
          { result[i].dayOfWeek : i \in { j \in 1..Len(result) :
                                            /\ result[j].gestationalWeek = w
                                            /\ result[j].notes = << noteOf[w] >> } }
             = 1..7

\* Week 27: the note on its last day as on its first, none in week 28.
C15_Witness ==
  /\ call.op = "generatePregnancyCalendar"
  /\ Len(result) = 280
  /\ result[183].gestationalWeek = 27 /\ result[183].dayOfWeek = 1
  /\ result[183].notes = << "Welcome to the third trimester!" >>
  /\ result[189].gestationalWeek = 27 /\ result[189].dayOfWeek = 7
  /\ result[189].notes = << "Welcome to the third trimester!" >>
  /\ result[190].gestationalWeek = 28
  /\ result[190].notes = << >>

C17_AppointmentsOfEveryWeek ==
  call.op = "generatePregnancyCalendar" =>
    /\ { result[i].gestationalWeek : i \in 1..Len(result) } = 1..40
    /\ \A i \in 1..Len(result) :
          LET rows == { k \in 1..Len(getAppointmentScheduleData) :
                          getAppointmentScheduleData[k].week = result[i].gestationalWeek }
              Row(n) == CHOOSE k \in rows : Cardinality({ j \in rows : j < k }) = n - 1
          IN
          /\ result[i].appointments \in Seq(STRING)
          /\ Len(result[i].appointments) = Cardinality(rows)
          /\ \A n \in 1..Len(result[i].appointments) :
                result[i].appointments[n] =
                   getAppointmentScheduleData[Row(n)].appointmentType \o ": "
                      \o getAppointmentScheduleData[Row(n)].description
          /\ (result[i].appointments # << >>)
                <=> (result[i].gestationalWeek \in {8, 12, 16, 20, 24, 28, 32, 36, 38, 40})

\* Week 38 has its appointment, week 39 an empty list.
C17_Witness ==
  /\ call.op = "generatePregnancyCalendar"
  /\ Len(result) = 280
  /\ result[260].gestationalWeek = 38
  /\ result[260].appointments =
        << "Pre-delivery Checkup: Check cervix, discuss delivery options" >>
  /\ result[267].gestationalWeek = 39
  /\ result[267].appointments = << >>
  /\ Len(result[267].appointments) = 0

(***************************************************************************)
(* Preferences as the claims speak of them: the fields and their strings.  *)
(***************************************************************************)
\* The fields of a preferences object, each with its string.
Fields(obj) == [ k \in Keys(obj) |-> GetProp(obj, k)[2] ]

\* The fields `base` with those of `u` laid over them.
Overwritten(base, u) ==
  [ k \in (DOMAIN base) \cup (DOMAIN u) |-> IF k \in DOMAIN u THEN u[k] ELSE base[k] ]

DefaultFields ==
  [ lmpDate |-> "", themeColor |-> "neutral", viewMode |-> "summary",
    dateFormat |-> "MM/DD/YYYY" ]

(***************************************************************************)
(* C18: when the storage write succeeds, savePreferences(p) returns true,  *)
(* the text stored under 'pregnancy_calendar_preferences' is the JSON      *)
(* encoding of p (it parses back to p), getCurrentPreferences() is p, and  *)
(* a subscriber of getPreferences() has received p.                        *)
(***************************************************************************)
C18_SaveStoresAndPublishes ==
  (call.op = "savePreferences" /\ call.faults.setItem = 0) =>
    /\ result = TRUE
    /\ "pregnancy_calendar_preferences" \in DOMAIN localStorage
    /\ localStorage["pregnancy_calendar_preferences"] = JSONStringify(call.arg)
    /\ JSONParse(localStorage["pregnancy_calendar_preferences"])
          = [ok |-> TRUE, value |-> call.arg]
    /\ Fields(call.arg) = [lmpDate |-> "2024-01-15", themeColor |-> "neutral",
                           viewMode |-> "summary"]
          => localStorage["pregnancy_calendar_preferences"]
                = << LBrace, JsString("lmpDate"), Colon, JsString("2024-01-15"), Comma,
                     JsString("themeColor"), Colon, JsString("neutral"), Comma,
                     JsString("viewMode"), Colon, JsString("summary"), RBrace >>
    /\ getCurrentPreferences(Service) = call.arg
    /\ received # NotSubscribed => received = call.arg

\* A successful save, with a subscriber, of preferences without a dateFormat.
C18_Witness ==
  /\ call.op = "savePreferences"
  /\ call.faults.setItem = 0
  /\ result = TRUE
  /\ Fields(call.arg) = [lmpDate |-> "2024-01-15", themeColor |-> "girl",
                         viewMode |-> "table"]
  /\ received = call.arg
  /\ preferencesSubject = call.arg

(***************************************************************************)
(* C19: when the storage operation throws, savePreferences and             *)
(* clearPreferences return false (the exception does not leave the         *)
(* method), and the current preferences are those of before the call.      *)
(***************************************************************************)
C19_ThrowingStorageLeavesPreferences ==
  [][ ( \/ (call'.op = "savePreferences" /\ call'.faults.setItem = 1)
        \/ (call'.op = "clearPreferences" /\ call'.faults.removeItem) )
      => /\ result' = FALSE
         /\ preferencesSubject' = preferencesSubject
         /\ received' = received ]_vars

\* A save that threw while other preferences were current.
C19_Witness ==
  /\ call.op = "savePreferences"
  /\ call.faults.setItem = 1
  /\ result = FALSE
  /\ preferencesSubject # Null
  /\ preferencesSubject # call.arg

(***************************************************************************)
(* C20: updatePreferences(u) changes only the fields named in u.  When it  *)
(* returns true the preferences are the previous ones, or the defaults     *)
(* (lmpDate '', themeColor 'neutral', viewMode 'summary', dateFormat       *)
(* 'MM/DD/YYYY') when there were none, with u's fields overwritten; when   *)
(* it returns false (the write threw) they are as before.  updateLmpDate,  *)
(* updateThemeColor and updateViewMode change only their own field.        *)
(***************************************************************************)
UpdateFrame(before, u, faults, returned, after) ==
  /\ returned = (faults.setItem = 0)
  /\ returned =>
        /\ after # Null
        /\ Fields(after) = Overwritten(IF before = Null THEN DefaultFields
                                       ELSE Fields(before), u)
  /\ ~returned => after = before

C20_UpdateChangesOnlyNamedFields ==
  [][ /\ call'.op = "updatePreferences" =>
            UpdateFrame(preferencesSubject, Fields(call'.arg), call'.faults,
                        result', preferencesSubject')
      /\ call'.op = "updateLmpDate" =>
            UpdateFrame(preferencesSubject, [lmpDate |-> call'.arg[2]], call'.faults,
                        result', preferencesSubject')
      /\ call'.op = "updateThemeColor" =>
            UpdateFrame(preferencesSubject, [themeColor |-> call'.arg[2]], call'.faults,
                        result', preferencesSubject')
      /\ call'.op = "updateViewMode" =>
            UpdateFrame(preferencesSubject, [viewMode |-> call'.arg[2]], call'.faults,
                        result', preferencesSubject') ]_vars

\* An update of two fields over existing preferences that have no dateFormat:
\* the lmpDate is kept and no dateFormat appears.
C20_Witness ==
  /\ call.op = "updatePreferences"
  /\ result = TRUE
  /\ Fields(call.arg) = [themeColor |-> "boy", viewMode |-> "table"]
  /\ Fields(preferencesSubject) = [lmpDate |-> "2024-01-15", themeColor |-> "boy",
                                   viewMode |-> "table"]

(***************************************************************************)
(* C25: for every reference date R at local midnight and every instant now *)
(* with R <= now <= dueDate(R), at any time of day, the summary satisfies  *)
(* daysCompleted + daysRemaining = 280.                                    *)
(***************************************************************************)
C25_CompletedPlusRemainingIs280 ==
  ( /\ call.op = "generatePregnancySummary"
    /\ TimeWithinDay(call.lmpDate) = 0
    /\ call.lmpDate <= call.arg
    /\ call.arg <= calculateDueDate(call.lmpDate) )
  => result.daysCompleted + result.daysRemaining = 280

(***************************************************************************)
(* The stored preferences as the claims speak of them.                     *)
(***************************************************************************)
\* The value is an object whose lmpDate, themeColor and viewMode are strings,
\* themeColor one of neutral, boy, girl and viewMode one of summary, table.
IsUserPreferences(v) ==
  /\ v # Undefined
  /\ v[1] = "object"
  /\ \A k \in {"lmpDate", "themeColor", "viewMode"} :
        k \in Keys(v) /\ GetProp(v, k)[1] = "string"
  /\ GetProp(v, "themeColor")[2] \in ThemeColors
  /\ GetProp(v, "viewMode")[2] \in ViewModes

\* The text parses as valid preferences.
IsValidText(text) ==
  JSONParse(text).ok /\ IsUserPreferences(JSONParse(text).value)

\* A valid value is stored under the preferences key of the store.
ValidStored(store) ==
  PREFERENCES_KEY \in DOMAIN store /\ IsValidText(store[PREFERENCES_KEY])

C22_ClearRemovesAndPublishesNull ==
  (call.op = "clearPreferences" /\ ~call.faults.removeItem) =>
    /\ result = TRUE
    /\ "pregnancy_calendar_preferences" \notin DOMAIN localStorage
    /\ getCurrentPreferences(Service) = Null
    /\ received # NotSubscribed => received = Null

\* A successful clear with a subscriber listening.
C22_Witness ==
  /\ call.op = "clearPreferences"
  /\ ~call.faults.removeItem
  /\ result = TRUE
  /\ received = Null
  /\ preferencesSubject = Null
  /\ localStorage = EmptyStorage

PrefixedKeys == { "pregnancy_calendar_preferences", "pregnancy_calendar_other" }

\* The positions of the entries of data whose key has the prefix and whose
\* value is a string, in the order of the entries.
StringEntries(data) ==
  { i \in 1..Len(data[2]) : data[2][i][1] \in PrefixedKeys /\ data[2][i][2][1] = "string" }

\* The first n of them.
FirstEntries(data, n) ==
  { i \in StringEntries(data) : Cardinality({ j \in StringEntries(data) : j < i }) < n }

\* The store with the entries of data at the positions written over it.
WrittenOver(store, data, positions) ==
  [ k \in (DOMAIN store) \cup { data[2][i][1] : i \in positions } |->
      IF \E i \in positions : data[2][i][1] = k
        THEN data[2][CHOOSE i \in positions : data[2][i][1] = k][2][2]
        ELSE store[k] ]

C26_MemoryAgreesWithStorage ==
  call.op \in { "savePreferences", "updatePreferences", "updateLmpDate",
                "updateThemeColor", "updateViewMode", "clearPreferences",
                "importStorageData" } =>
    getCurrentPreferences(Service) =
       IF ValidStored(localStorage)
         THEN JSONParse(localStorage[PREFERENCES_KEY]).value
         ELSE Null

====
